---- MODULE Spec2Model ----
(***************************************************************************)
(* State-machine model of the CementGPT browser client                     *)
(* (src/static/script.js).  One action per event handler or per            *)
(* continuation of an awaited fetch: JavaScript runs each of them to       *)
(* completion on the single event-loop thread, so the interleaving points  *)
(* are exactly the awaits.                                                 *)
(*                                                                         *)
(* Text values (input value, message contents) are sequences of one-       *)
(* character strings, or of one opaque token standing for a fixed text.    *)
(* Timestamps (new Date()) are not part of the state.                      *)
(***************************************************************************)
EXTENDS Integers, Sequences, FiniteSets, TLC

VARIABLES
    systemStatus,        \* this.systemStatus
    isTyping,            \* this.isTyping (the in-flight flag)
    conversationHistory, \* this.conversationHistory
    statusIndicator,     \* class of #statusIndicator: checking / online / offline
    inputDisabled,       \* messageInput.disabled and sendBtn.disabled
    inputValue,          \* messageInput.value
    messages,            \* the .message children of #messagesContainer, in order
    statusPending,       \* the /api/status request of the constructor is outstanding
    historyPending,      \* the /api/conversation-history request is outstanding
    chatPending,         \* outstanding /api/chat requests with their closures
    clearPending,        \* number of outstanding /api/clear-conversation requests
    toastClass,          \* type in the class of #toast
    toastShow,           \* #toast carries the class 'show'
    toastTimers,         \* pending setTimeout callbacks of showToast
    last,                \* the handler step that ran last, with its input
    modalShow,           \* #corpusModal carries the class 'show'
    corporaList,         \* what #corporaList displays
    newCorpusName,       \* value of #newCorpusName
    targetCorpus,        \* value of #targetCorpus
    documentUrl,         \* value of #documentUrl
    loadingOverlay,      \* #loadingOverlay carries the class 'show'
    corpusPending,       \* outstanding create / add-document requests
    refreshPending,      \* number of outstanding /api/corpus/list requests
    fmtContent,          \* formatMessage: the argument
    fmtResult,           \* formatMessage: the value returned
    fmtDone              \* formatMessage has returned

vars == <<systemStatus, isTyping, conversationHistory, statusIndicator,
          inputDisabled, inputValue, messages, statusPending, historyPending,
          chatPending, clearPending, toastClass, toastShow, toastTimers, last,
          modalShow, corporaList, newCorpusName, targetCorpus, documentUrl,
          loadingOverlay, corpusPending, refreshPending,
          fmtContent, fmtResult, fmtDone>>

chatVars == <<isTyping, conversationHistory, inputValue, messages, chatPending>>
statusVars == <<systemStatus, statusIndicator, inputDisabled, statusPending>>
toastVars == <<toastClass, toastShow, toastTimers>>
formVars == <<newCorpusName, targetCorpus, documentUrl>>
corpusVars == <<modalShow, corporaList, formVars, loadingOverlay,
                corpusPending, refreshPending>>
formatVars == <<fmtContent, fmtResult, fmtDone>>

(***************************************************************************)
(* Bounds of the model.                                                    *)
(***************************************************************************)
MaxMessages == 3        \* a send is taken only while the transcript is shorter
MaxClearPending == 1    \* outstanding clear requests
MaxTimers == 2          \* pending toast timers

(***************************************************************************)
(* Input domains.                                                          *)
(***************************************************************************)
\* values the input field can hold
Inputs == { <<>>, <<" ">>, <<" ", "h", " ">> }

\* ids of typing placeholders (`typing-${Date.now()}`).  sendMessage creates a
\* placeholder only while none exists, so its id is never compared with the
\* id of another placeholder and one value stands for every clock reading.
TypingIds == { "typing-1" }

NoId == ""

HistoryEntry(r) == [role |-> r, message |-> <<"old">>]

\* the history field of a /api/conversation-history response
Histories ==
    { <<>>, <<HistoryEntry("user")>>,
      <<HistoryEntry("user"), HistoryEntry("agent")>> }

(***************************************************************************)
(* String.prototype.trim on a sequence of characters.                      *)
(***************************************************************************)
RECURSIVE TrimStart(_)
TrimStart(s) ==
    IF s # <<>> /\ Head(s) = " " THEN TrimStart(Tail(s)) ELSE s

RECURSIVE TrimEnd(_)
TrimEnd(s) ==
    IF s # <<>> /\ s[Len(s)] = " " THEN TrimEnd(SubSeq(s, 1, Len(s) - 1)) ELSE s

Trim(s) == TrimEnd(TrimStart(s))

(***************************************************************************)
(* formatMessage, on a sequence of characters.                             *)
(***************************************************************************)
NL == "\n"

\* the grave accent U+0060, which a string of this language cannot hold
Backtick == "GRAVE"

StrongOpen == <<"<", "s", "t", "r", "o", "n", "g", ">">>
StrongClose == <<"<", "/", "s", "t", "r", "o", "n", "g", ">">>
EmOpen == <<"<", "e", "m", ">">>
EmClose == <<"<", "/", "e", "m", ">">>
CodeOpen == <<"<", "c", "o", "d", "e", ">">>
CodeClose == <<"<", "/", "c", "o", "d", "e", ">">>
ParagraphOpen == <<"<", "p", ">">>
ParagraphClose == <<"<", "/", "p", ">">>
ParagraphBreak == ParagraphClose \o ParagraphOpen
LineBreak == <<"<", "b", "r", ">">>

\* the text `d` stands in `s` at position i
HasAt(s, i, d) ==
    i + Len(d) - 1 <= Len(s) /\ SubSeq(s, i, i + Len(d) - 1) = d

\* content.includes(sub)
Includes(s, sub) == \E i \in 1..Len(s) : HasAt(s, i, sub)

\* the lazy group (.*?) followed by the delimiter d: the first position from
\* j on at which d stands, no line terminator being passed over; 0 if none
RECURSIVE LazyClose(_, _, _)
LazyClose(s, j, d) ==
    IF j > Len(s) THEN 0
    ELSE IF HasAt(s, j, d) THEN j
    ELSE IF s[j] = NL THEN 0
    ELSE LazyClose(s, j + 1, d)

\* content.replace(/d(.*?)d/g, open + '$1' + close), scanning from i
RECURSIVE ReplacePairs(_, _, _, _, _)
ReplacePairs(s, i, d, open, close) ==
    IF i > Len(s) THEN <<>>
    ELSE IF HasAt(s, i, d) /\ LazyClose(s, i + Len(d), d) # 0
    THEN LET j == LazyClose(s, i + Len(d), d)
         IN  open \o SubSeq(s, i + Len(d), j - 1) \o close
                  \o ReplacePairs(s, j + Len(d), d, open, close)
    ELSE <<s[i]>> \o ReplacePairs(s, i + 1, d, open, close)

\* content.replace(/pat/g, by) for a fixed text pat, scanning from i
RECURSIVE ReplaceText(_, _, _, _)
ReplaceText(s, i, pat, by) ==
    IF i > Len(s) THEN <<>>
    ELSE IF HasAt(s, i, pat) THEN by \o ReplaceText(s, i + Len(pat), pat, by)
    ELSE <<s[i]>> \o ReplaceText(s, i + 1, pat, by)

\* one replace call on the whole text; the one-element set binds the text
\* to its value, so that the scan reads a string and not an expression
ReplaceAllPairs(text, d, open, close) ==
    CHOOSE r \in { ReplacePairs(s, 1, d, open, close) : s \in {text} } : TRUE

ReplaceAllText(text, pat, by) ==
    CHOOSE r \in { ReplaceText(s, 1, pat, by) : s \in {text} } : TRUE

\* the markdown-like replacements of formatMessage
FormatInline(content) ==
    LET strong == ReplaceAllPairs(content, <<"*", "*">>, StrongOpen, StrongClose)
        em == ReplaceAllPairs(strong, <<"*">>, EmOpen, EmClose)
    IN  ReplaceAllPairs(em, <<Backtick>>, CodeOpen, CodeClose)

\* the line-break replacements of formatMessage
FormatBreaks(content) ==
    ReplaceAllText(ReplaceAllText(content, <<NL, NL>>, ParagraphBreak),
                   <<NL>>, LineBreak)

\* a wrapping test that looks for line breaks only
ContainsLineBreaksOnly(content) == Includes(content, LineBreak)

\* the test that decides the wrapping in a paragraph
ContainsBreaks(content) ==
    Includes(content, LineBreak) \/ Includes(content, ParagraphClose)

\* the text, wrapped in a paragraph if it contains breaks
WrapBreaks(converted) ==
    IF ContainsBreaks(converted)
    THEN ParagraphOpen \o converted \o ParagraphClose
    ELSE converted

formatMessage(content) ==
    CHOOSE r \in { WrapBreaks(converted) :
                       converted \in { FormatBreaks(FormatInline(content)) } } : TRUE

(***************************************************************************)
(* DOM elements of the transcript.                                         *)
(***************************************************************************)
\* the element addMessage appends; content is the markup of its text
MessageElement(role, content, isError) ==
    [role |-> role, typing |-> FALSE, isError |-> isError,
     content |-> formatMessage(content), id |-> NoId]

\* the element addTypingIndicator appends
TypingElement(typingId) ==
    [role |-> "agent", typing |-> TRUE, isError |-> FALSE,
     content |-> <<>>, id |-> typingId]

\* the first message of the page, which clearConversation keeps
WelcomeMessage == MessageElement("agent", <<"welcome">>, FALSE)

\* an addMessage that inserts the element before the others
addMessageAtTop(ms, role, content, isError) ==
    <<MessageElement(role, content, isError)>> \o ms

addMessage(ms, role, content, isError) ==
    Append(ms, MessageElement(role, content, isError))

addTypingIndicator(ms, typingId) == Append(ms, TypingElement(typingId))

\* index of the first element with the given id, 0 when there is none
FirstWithId(ms, id) ==
    IF \E i \in 1..Len(ms) : ms[i].id = id
    THEN CHOOSE i \in 1..Len(ms) :
            ms[i].id = id /\ \A j \in 1..(i - 1) : ms[j].id # id
    ELSE 0

RemoveAt(ms, i) == SubSeq(ms, 1, i - 1) \o SubSeq(ms, i + 1, Len(ms))

removeTypingIndicator(ms, typingId) ==
    IF FirstWithId(ms, typingId) = 0 THEN ms
    ELSE RemoveAt(ms, FirstWithId(ms, typingId))

\* fixed texts of sendMessage
ErrorPrefix == <<"Error: ">>
SorryText == <<"Sorry, I encountered an error processing your request.">>

(***************************************************************************)
(* showToast: sets the type, shows the toast, starts one more timer.       *)
(***************************************************************************)
showToast(type) ==
    /\ toastTimers < MaxTimers
    /\ toastClass' = type
    /\ toastShow' = TRUE
    /\ toastTimers' = toastTimers + 1

\* the setTimeout callback of showToast
ToastTimeout ==
    /\ toastTimers > 0
    /\ toastShow' = FALSE
    /\ toastTimers' = toastTimers - 1
    /\ last' = [op |-> "toastTimeout"]
    /\ UNCHANGED <<chatVars, statusVars, toastClass, historyPending, clearPending>>
    /\ UNCHANGED <<corpusVars, formatVars>>

(***************************************************************************)
(* Initial state: the page as loaded, after new CementGPT().  The          *)
(* constructor has issued the status and the history request.  Whether the *)
(* page's markup starts the input controls disabled is not decided by the  *)
(* script, so both are initial states.  The corpus modal is closed, its     *)
(* form is empty and no formatMessage call is under observation.           *)
(***************************************************************************)
\* what #corporaList shows before the first refreshCorpora
CorporaListInitial == [kind |-> "initial", html |-> <<>>]

\* the outstanding requests to /api/corpus/create and /api/corpus/add-document
NoCorpusRequest == [create |-> 0, add |-> 0]

Outstanding(pending) == pending.create + pending.add

CorpusInit ==
    /\ modalShow = FALSE
    /\ corporaList = CorporaListInitial
    /\ newCorpusName = <<>>
    /\ targetCorpus = <<>>
    /\ documentUrl = <<>>
    /\ loadingOverlay = FALSE
    /\ corpusPending = NoCorpusRequest
    /\ refreshPending = 0

FormatIdle ==
    /\ fmtContent = <<>>
    /\ fmtResult = <<>>
    /\ fmtDone = FALSE

PageInit ==
    /\ systemStatus = "checking"
    /\ isTyping = FALSE
    /\ conversationHistory = <<>>
    /\ statusIndicator = "checking"
    /\ inputDisabled \in BOOLEAN
    /\ inputValue = <<>>
    /\ messages = <<WelcomeMessage>>
    /\ statusPending = TRUE
    /\ historyPending = TRUE
    /\ chatPending = <<>>
    /\ clearPending = 0
    /\ toastClass = "none"
    /\ toastShow = FALSE
    /\ toastTimers = 0
    /\ last = [op |-> "constructor"]

Init ==
    /\ PageInit
    /\ CorpusInit
    /\ FormatIdle

(***************************************************************************)
(* checkSystemStatus: the continuation after the /api/status response.     *)
(***************************************************************************)
\* what fetch('/api/status') and response.json() can deliver
StatusResponses ==
    [threw : {FALSE}, rag_available : BOOLEAN, vertex_ai_initialized : BOOLEAN]
    \cup { [threw |-> TRUE, rag_available |-> FALSE,
            vertex_ai_initialized |-> FALSE] }

\* a readiness test that is content with either flag
StatusReadyEitherFlag(data) ==
    ~data.threw /\ (data.rag_available \/ data.vertex_ai_initialized)

\* the branch of checkSystemStatus that reports the system ready
StatusReady(data) ==
    ~data.threw /\ data.rag_available /\ data.vertex_ai_initialized

enableChat == inputDisabled' = FALSE

disableChat == inputDisabled' = TRUE

updateStatusIndicator(status) == statusIndicator' = status

StatusResponse(data) ==
    /\ statusPending
    /\ statusPending' = FALSE
    /\ IF StatusReady(data)
       THEN /\ updateStatusIndicator("online")
            /\ enableChat
            /\ UNCHANGED toastVars
       ELSE /\ updateStatusIndicator("offline")
            /\ disableChat
            /\ showToast("error")
    /\ last' = [op |-> "statusResponse", data |-> data]
    /\ UNCHANGED <<systemStatus, chatVars, historyPending, clearPending>>
    /\ UNCHANGED <<corpusVars, formatVars>>

(***************************************************************************)
(* sendMessage, up to its await of fetch('/api/chat').                     *)
(***************************************************************************)
\* sendMessage without the in-flight test of its early return
SendAcceptedIgnoringFlight(message) == message # <<>>

\* the early return of sendMessage, negated
SendAccepted(message) == message # <<>> /\ ~isTyping

\* sendMessage called with `value` in the input field, from entry point `op`
sendMessage(value, op) ==
    LET message == Trim(value) IN
    IF ~SendAccepted(message)
    THEN /\ inputValue' = value
         /\ last' = [op |-> op, accepted |-> FALSE, value |-> value]
         /\ UNCHANGED <<isTyping, conversationHistory, messages, chatPending>>
    ELSE /\ Len(messages) < MaxMessages
         /\ \E typingId \in TypingIds :
              /\ messages' = addTypingIndicator(
                                addMessage(messages, "user", message, FALSE),
                                typingId)
              /\ chatPending' = Append(chatPending,
                                  [message |-> message, typingId |-> typingId])
         /\ inputValue' = <<>>
         /\ isTyping' = TRUE
         /\ last' = [op |-> op, accepted |-> TRUE, value |-> value]
         /\ UNCHANGED conversationHistory

\* the user edits the input field; a disabled field takes no input
TypeInput(value) ==
    /\ ~inputDisabled
    /\ value # inputValue
    /\ inputValue' = value
    /\ last' = [op |-> "typeInput", value |-> value]
    /\ UNCHANGED <<isTyping, conversationHistory, messages, chatPending,
                   statusVars, toastVars, historyPending, clearPending>>
    /\ UNCHANGED <<corpusVars, formatVars>>

\* keypress Enter in the input field; a disabled field gets no key events
SendByEnter ==
    /\ ~inputDisabled
    /\ sendMessage(inputValue, "sendEnter")
    /\ UNCHANGED <<statusVars, toastVars, historyPending, clearPending>>
    /\ UNCHANGED <<corpusVars, formatVars>>

\* click on the send button; a disabled button gets no click events
SendByButton ==
    /\ ~inputDisabled
    /\ sendMessage(inputValue, "sendButton")
    /\ UNCHANGED <<statusVars, toastVars, historyPending, clearPending>>
    /\ UNCHANGED <<corpusVars, formatVars>>

\* the global sendSuggestion(message), an onclick handler of the page
sendSuggestion(message) ==
    /\ sendMessage(message, "sendSuggestion")
    /\ UNCHANGED <<statusVars, toastVars, historyPending, clearPending>>
    /\ UNCHANGED <<corpusVars, formatVars>>

(***************************************************************************)
(* sendMessage, after its await: the /api/chat response.                   *)
(***************************************************************************)
\* what fetch('/api/chat') and response.json() can deliver; hasResponse is
\* FALSE when data.response is missing (formatMessage then throws)
ChatResponses ==
    [threw : {FALSE}, status : {"success", "error"}, hasResponse : BOOLEAN,
     response : {<<"reply">>}, message : {<<"reason">>}]
    \cup { [threw |-> TRUE, status |-> "none", hasResponse |-> FALSE,
            response |-> <<>>, message |-> <<>>] }

\* a catch block that appends no error message
ChatCatchSilent(ms, typingId) == removeTypingIndicator(ms, typingId)

\* the catch block of sendMessage
ChatCatch(ms, typingId) ==
    addMessage(removeTypingIndicator(ms, typingId), "agent", SorryText, TRUE)

\* a finally block that leaves the in-flight flag set
ChatFinallyKeepsFlag == isTyping' = isTyping

\* the finally block of sendMessage
ChatFinally == isTyping' = FALSE

RemovePending(i) == RemoveAt(chatPending, i)

\* a push that records the agent turn alone
RecordAgentTurnOnly(history, message, response) ==
    Append(history, [role |-> "agent", message |-> response])

\* this.conversationHistory.push(user turn, agent turn)
RecordTurns(history, message, response) ==
    history \o << [role |-> "user", message |-> message],
                  [role |-> "agent", message |-> response] >>

ChatResponse(i, data) ==
    LET req == chatPending[i]
        removed == removeTypingIndicator(messages, req.typingId)
    IN
    /\ chatPending' = RemovePending(i)
    /\ IF data.threw
       THEN \* fetch or response.json() threw
            /\ messages' = ChatCatch(messages, req.typingId)
            /\ showToast("error")
            /\ UNCHANGED conversationHistory
       ELSE IF data.status = "success"
       THEN IF data.hasResponse
            THEN /\ messages' = addMessage(removed, "agent", data.response, FALSE)
                 /\ conversationHistory' =
                        RecordTurns(conversationHistory, req.message,
                                    data.response)
                 /\ UNCHANGED toastVars
            ELSE \* addMessage throws in formatMessage before it appends
                 /\ messages' = ChatCatch(removed, req.typingId)
                 /\ showToast("error")
                 /\ UNCHANGED conversationHistory
       ELSE /\ messages' = addMessage(removed, "agent",
                                      ErrorPrefix \o data.message, TRUE)
            /\ showToast("error")
            /\ UNCHANGED conversationHistory
    /\ ChatFinally
    /\ last' = [op |-> "chatResponse", data |-> data]
    /\ UNCHANGED <<inputValue, statusVars, historyPending, clearPending>>
    /\ UNCHANGED <<corpusVars, formatVars>>

(***************************************************************************)
(* clearConversation.                                                      *)
(***************************************************************************)
\* a handler that goes on to the request although confirm() answered "no"
ClearDeclinedFallsThrough ==
    /\ clearPending < MaxClearPending
    /\ clearPending' = clearPending + 1
    /\ last' = [op |-> "clearDeclined"]
    /\ UNCHANGED <<chatVars, statusVars, toastVars, historyPending>>
    /\ UNCHANGED <<corpusVars, formatVars>>

\* confirm() answered "no": the handler returns
ClearDeclined ==
    /\ last' = [op |-> "clearDeclined"]
    /\ UNCHANGED <<chatVars, statusVars, toastVars, historyPending, clearPending>>
    /\ UNCHANGED <<corpusVars, formatVars>>

\* confirm() answered "yes": the request is issued
ClearConfirmed ==
    /\ clearPending < MaxClearPending
    /\ clearPending' = clearPending + 1
    /\ last' = [op |-> "clearConfirmed"]
    /\ UNCHANGED <<chatVars, statusVars, toastVars, historyPending>>
    /\ UNCHANGED <<corpusVars, formatVars>>

\* what fetch('/api/clear-conversation') and response.json() can deliver
ClearResponses ==
    [threw : {FALSE}, status : {"success", "error"}]
    \cup { [threw |-> TRUE, status |-> "none"] }

\* a loop that keeps the elements up to index 1 (index > 1 removed)
KeepFirstTwo(ms) == SubSeq(ms, 1, IF Len(ms) < 2 THEN Len(ms) ELSE 2)

\* messages.forEach: every .message element but the first is removed
KeepFirst(ms) == IF ms = <<>> THEN <<>> ELSE <<Head(ms)>>

ClearResponse(data) ==
    /\ clearPending > 0
    /\ clearPending' = clearPending - 1
    /\ IF data.threw
       THEN /\ showToast("error")
            /\ UNCHANGED <<messages, conversationHistory>>
       ELSE IF data.status = "success"
       THEN /\ messages' = KeepFirst(messages)
            /\ conversationHistory' = <<>>
            /\ showToast("success")
       ELSE UNCHANGED <<messages, conversationHistory, toastVars>>
    /\ last' = [op |-> "clearResponse", data |-> data]
    /\ UNCHANGED <<isTyping, inputValue, chatPending, statusVars, historyPending>>
    /\ UNCHANGED <<corpusVars, formatVars>>

(***************************************************************************)
(* loadConversationHistory: the continuation after the response.           *)
(***************************************************************************)
\* what fetch('/api/conversation-history') and response.json() can deliver
HistoryResponses ==
    [threw : {FALSE}, status : {"success", "error"}, history : Histories]
    \cup { [threw |-> TRUE, status |-> "none", history |-> <<>>] }

\* a restore loop that walks the history from its end
RECURSIVE RenderHistoryBackwards(_, _)
RenderHistoryBackwards(ms, history) ==
    IF history = <<>> THEN ms
    ELSE RenderHistoryBackwards(
            addMessage(ms, history[Len(history)].role,
                       history[Len(history)].message, FALSE),
            SubSeq(history, 1, Len(history) - 1))

\* data.history.forEach(item => this.addMessage(item.role, item.message))
RECURSIVE RenderHistory(_, _)
RenderHistory(ms, history) ==
    IF history = <<>> THEN ms
    ELSE RenderHistory(
            addMessage(ms, Head(history).role, Head(history).message, FALSE),
            Tail(history))

\* the condition under which loadConversationHistory applies the response
HistoryApplies(data) ==
    ~data.threw /\ data.status = "success" /\ Len(data.history) > 0

HistoryResponse(data) ==
    /\ historyPending
    /\ historyPending' = FALSE
    /\ IF HistoryApplies(data)
       THEN /\ conversationHistory' = data.history
            /\ messages' = RenderHistory(messages, data.history)
       ELSE UNCHANGED <<conversationHistory, messages>>
    /\ last' = [op |-> "historyResponse", data |-> data]
    /\ UNCHANGED <<isTyping, inputValue, chatPending, statusVars, toastVars,
                   clearPending>>
    /\ UNCHANGED <<corpusVars, formatVars>>

(***************************************************************************)
(* The machine.                                                            *)
(***************************************************************************)
Next ==
    \/ \E data \in StatusResponses : StatusResponse(data)
    \/ \E data \in HistoryResponses : HistoryResponse(data)
    \/ \E value \in Inputs : TypeInput(value)
    \/ SendByEnter
    \/ SendByButton
    \/ \E message \in Inputs : sendSuggestion(message)
    \/ \E i \in 1..Len(chatPending), data \in ChatResponses : ChatResponse(i, data)
    \/ ClearDeclined
    \/ ClearConfirmed
    \/ \E data \in ClearResponses : ClearResponse(data)
    \/ ToastTimeout

Spec == Init /\ [][Next]_vars

\* the machine while the user only chats: no clear is requested and the
\* history request stays unanswered
SendNext ==
    \/ \E data \in StatusResponses : StatusResponse(data)
    \/ \E value \in Inputs : TypeInput(value)
    \/ SendByEnter
    \/ SendByButton
    \/ \E message \in Inputs : sendSuggestion(message)
    \/ \E i \in 1..Len(chatPending), data \in ChatResponses : ChatResponse(i, data)
    \/ ToastTimeout

SendSpec == Init /\ [][SendNext]_vars

(***************************************************************************)
(* The corpus modal: showCorpusModal, closeCorpusModal, refreshCorpora,     *)
(* createCorpus and addDocument, with the continuations of their requests. *)
(* The handlers are reached through the page's buttons and the global      *)
(* functions; the script puts no guard in front of any of them.            *)
(***************************************************************************)
MaxCorpusPending == 2   \* outstanding create and add-document requests
MaxRefreshPending == 1  \* outstanding /api/corpus/list requests

\* what the user may have typed into a field of the corpus forms
FieldValues == { <<>>, <<" ">>, <<"c">> }

CorporaLoading == [kind |-> "loading", html |-> <<>>]
CorporaResponse(response) == [kind |-> "response", html |-> formatMessage(response)]
CorporaError(message) == [kind |-> "error", html |-> message]
CorporaFailed == [kind |-> "failed", html |-> <<>>]

showLoadingOverlay == loadingOverlay' = TRUE

hideLoadingOverlay == loadingOverlay' = FALSE

\* refreshCorpora up to its await
refreshCorpora ==
    /\ refreshPending < MaxRefreshPending
    /\ corporaList' = CorporaLoading
    /\ refreshPending' = refreshPending + 1

showCorpusModal ==
    /\ modalShow' = TRUE
    /\ refreshCorpora
    /\ last' = [op |-> "showCorpusModal"]
    /\ UNCHANGED <<chatVars, statusVars, toastVars, historyPending, clearPending,
                   formVars, loadingOverlay, corpusPending, formatVars>>

closeCorpusModal ==
    /\ modalShow' = FALSE
    /\ last' = [op |-> "closeCorpusModal"]
    /\ UNCHANGED <<chatVars, statusVars, toastVars, historyPending, clearPending,
                   corporaList, formVars, loadingOverlay, corpusPending,
                   refreshPending, formatVars>>

\* the global function refreshCorpora()
RefreshClicked ==
    /\ refreshCorpora
    /\ last' = [op |-> "refreshCorpora"]
    /\ UNCHANGED <<chatVars, statusVars, toastVars, historyPending, clearPending,
                   modalShow, formVars, loadingOverlay, corpusPending, formatVars>>

RefreshResponses ==
    [threw : {FALSE}, status : {"success", "error"},
     response : {<<"*", "c", "*">>}, message : {<<"reason">>}]
    \cup { [threw |-> TRUE, status |-> "none", response |-> <<>>, message |-> <<>>] }

\* refreshCorpora after its await
RefreshResponse(data) ==
    /\ refreshPending > 0
    /\ refreshPending' = refreshPending - 1
    /\ corporaList' = IF data.threw THEN CorporaFailed
                      ELSE IF data.status = "success"
                           THEN CorporaResponse(data.response)
                           ELSE CorporaError(data.message)
    /\ last' = [op |-> "refreshResponse"]
    /\ UNCHANGED <<chatVars, statusVars, toastVars, historyPending, clearPending,
                   modalShow, formVars, loadingOverlay, corpusPending, formatVars>>

\* the user edits a field of the corpus forms (an input event: the value
\* changes)
TypeNewCorpusName(value) ==
    /\ value # newCorpusName
    /\ newCorpusName' = value
    /\ last' = [op |-> "typeCorpusForm"]
    /\ UNCHANGED <<chatVars, statusVars, toastVars, historyPending, clearPending,
                   modalShow, corporaList, targetCorpus, documentUrl,
                   loadingOverlay, corpusPending, refreshPending, formatVars>>

TypeTargetCorpus(value) ==
    /\ value # targetCorpus
    /\ targetCorpus' = value
    /\ last' = [op |-> "typeCorpusForm"]
    /\ UNCHANGED <<chatVars, statusVars, toastVars, historyPending, clearPending,
                   modalShow, corporaList, newCorpusName, documentUrl,
                   loadingOverlay, corpusPending, refreshPending, formatVars>>

TypeDocumentUrl(value) ==
    /\ value # documentUrl
    /\ documentUrl' = value
    /\ last' = [op |-> "typeCorpusForm"]
    /\ UNCHANGED <<chatVars, statusVars, toastVars, historyPending, clearPending,
                   modalShow, corporaList, newCorpusName, targetCorpus,
                   loadingOverlay, corpusPending, refreshPending, formatVars>>

\* a validation that looks at the raw field
CreateRejectedUntrimmed(name) == name = <<>>

\* if (!corpusName) with corpusName = value.trim()
CreateRejected(name) == Trim(name) = <<>>

\* createCorpus up to its await
createCorpus ==
    /\ IF CreateRejected(newCorpusName)
       THEN /\ showToast("warning")
            /\ last' = [op |-> "createCorpus", accepted |-> FALSE]
            /\ UNCHANGED <<loadingOverlay, corpusPending>>
       ELSE /\ Outstanding(corpusPending) < MaxCorpusPending
            /\ showLoadingOverlay
            /\ corpusPending' = [corpusPending EXCEPT !.create = @ + 1]
            /\ last' = [op |-> "createCorpus", accepted |-> TRUE]
            /\ UNCHANGED toastVars
    /\ UNCHANGED <<chatVars, statusVars, historyPending, clearPending,
                   modalShow, corporaList, formVars, refreshPending, formatVars>>

CorpusResponses ==
    [threw : {FALSE}, status : {"success", "error"}]
    \cup { [threw |-> TRUE, status |-> "none"] }

\* createCorpus after its await, the finally block included
CreateResponse(data) ==
    /\ corpusPending.create > 0
    /\ corpusPending' = [corpusPending EXCEPT !.create = @ - 1]
    /\ IF ~data.threw /\ data.status = "success"
       THEN /\ showToast("success")
            /\ newCorpusName' = <<>>
            /\ refreshCorpora
       ELSE /\ showToast("error")
            /\ UNCHANGED <<newCorpusName, corporaList, refreshPending>>
    /\ hideLoadingOverlay
    /\ last' = [op |-> "createResponse"]
    /\ UNCHANGED <<chatVars, statusVars, historyPending, clearPending,
                   modalShow, targetCorpus, documentUrl, formatVars>>

\* if (!corpusName || !documentUrl), both trimmed
AddRejected(corpus, url) == Trim(corpus) = <<>> \/ Trim(url) = <<>>

\* addDocument up to its await
addDocument ==
    /\ IF AddRejected(targetCorpus, documentUrl)
       THEN /\ showToast("warning")
            /\ last' = [op |-> "addDocument", accepted |-> FALSE]
            /\ UNCHANGED <<loadingOverlay, corpusPending>>
       ELSE /\ Outstanding(corpusPending) < MaxCorpusPending
            /\ showLoadingOverlay
            /\ corpusPending' = [corpusPending EXCEPT !.add = @ + 1]
            /\ last' = [op |-> "addDocument", accepted |-> TRUE]
            /\ UNCHANGED toastVars
    /\ UNCHANGED <<chatVars, statusVars, historyPending, clearPending,
                   modalShow, corporaList, formVars, refreshPending, formatVars>>

\* addDocument after its await, the finally block included
AddResponse(data) ==
    /\ corpusPending.add > 0
    /\ corpusPending' = [corpusPending EXCEPT !.add = @ - 1]
    /\ IF ~data.threw /\ data.status = "success"
       THEN /\ showToast("success")
            /\ targetCorpus' = <<>>
            /\ documentUrl' = <<>>
       ELSE /\ showToast("error")
            /\ UNCHANGED <<targetCorpus, documentUrl>>
    /\ hideLoadingOverlay
    /\ last' = [op |-> "addResponse"]
    /\ UNCHANGED <<chatVars, statusVars, historyPending, clearPending,
                   modalShow, corporaList, newCorpusName, refreshPending,
                   formatVars>>

CorpusNext ==
    \/ showCorpusModal
    \/ closeCorpusModal
    \/ RefreshClicked
    \/ \E data \in RefreshResponses : RefreshResponse(data)
    \/ \E value \in FieldValues : TypeNewCorpusName(value)
    \/ \E value \in FieldValues : TypeTargetCorpus(value)
    \/ \E value \in FieldValues : TypeDocumentUrl(value)
    \/ createCorpus
    \/ \E data \in CorpusResponses : CreateResponse(data)
    \/ addDocument
    \/ \E data \in CorpusResponses : AddResponse(data)
    \/ ToastTimeout

CorpusSpec == Init /\ [][CorpusNext]_vars

(***************************************************************************)
(* formatMessage on its own: the argument is drawn from FormatInputs and   *)
(* one step calls the function.                                            *)
(***************************************************************************)
MaxPieces == 3          \* pieces a raw argument is put together from
MaxSegments == 3        \* segments a marked-up argument is put together from

\* the pieces of raw arguments: a plain character, the delimiters, a
\* newline, and literal break and paragraph markup
Pieces ==
    { <<"a">>, <<"*">>, <<Backtick>>, <<NL>>, LineBreak, ParagraphClose }

RECURSIVE Concat(_)
Concat(seqs) == IF seqs = <<>> THEN <<>> ELSE Head(seqs) \o Concat(Tail(seqs))

ListsUpTo(S, n) == UNION { [1..k -> S] : k \in 0..n }

RawInputs == { Concat(ps) : ps \in ListsUpTo(Pieces, MaxPieces) }

\* marked-up arguments: plain text, newlines, and delimiter pairs around
\* plain text or around text that holds a newline
Segments ==
    { [kind |-> "plain", text |-> <<"a">>], [kind |-> "newline", text |-> <<NL>>] }
    \cup [kind : {"bold", "italic", "code"}, text : { <<"a">>, <<"a", NL, "a">> }]

Delimiter(kind) ==
    CASE kind = "bold" -> <<"*", "*">>
      [] kind = "italic" -> <<"*">>
      [] kind = "code" -> <<Backtick>>
      [] OTHER -> <<>>

\* the source text of a segment
SegmentSource(seg) == Delimiter(seg.kind) \o seg.text \o Delimiter(seg.kind)

SegmentLists == ListsUpTo(Segments, MaxSegments)

SourceOf(segs) == Concat([k \in 1..Len(segs) |-> SegmentSource(segs[k])])

Seg(kind, text) == [kind |-> kind, text |-> text]

\* '**bold** and *italic* and `code`', two newlines, 'next para', each word
\* shortened to one character
ExampleSegments ==
    << Seg("bold", <<"b">>), Seg("plain", <<" ">>), Seg("italic", <<"i">>),
       Seg("plain", <<" ">>), Seg("code", <<"c">>), Seg("newline", <<NL>>),
       Seg("newline", <<NL>>), Seg("plain", <<"n">>) >>

FormatInputs ==
    RawInputs \cup { SourceOf(segs) : segs \in SegmentLists }
              \cup { SourceOf(ExampleSegments) }

FormatInit ==
    /\ PageInit
    /\ CorpusInit
    /\ fmtContent \in FormatInputs
    /\ fmtResult = <<>>
    /\ fmtDone = FALSE

\* one call formatMessage(content)
FormatCall ==
    /\ ~fmtDone
    /\ fmtResult' = formatMessage(fmtContent)
    /\ fmtDone' = TRUE
    /\ last' = [op |-> "formatMessage"]
    /\ UNCHANGED <<chatVars, statusVars, toastVars, historyPending, clearPending,
                   corpusVars, fmtContent>>

FormatSpec == FormatInit /\ [][FormatCall]_vars

\* the /api/chat request of an accepted send eventually settles
FairSpec ==
    Spec /\ WF_vars(\E i \in 1..Len(chatPending), data \in ChatResponses :
                        ChatResponse(i, data))

(***************************************************************************)
(* Vocabulary of the properties.                                           *)
(***************************************************************************)
SendOps == { "sendEnter", "sendButton", "sendSuggestion" }

IsTypingElement(e) == e.typing

IsMessageElement(e) == ~e.typing

\* the transcript without typing placeholders
Rendered(ms) == SelectSeq(ms, IsMessageElement)

\* the typing placeholders of the transcript
Placeholders(ms) == SelectSeq(ms, IsTypingElement)

\* s is t with exactly one element added at the end
ExtendsByOne(s, t) == Len(s) = Len(t) + 1 /\ SubSeq(s, 1, Len(t)) = t

\* this step is a sendMessage call that was taken
AcceptedSendStep == last'.op \in SendOps /\ last'.accepted

\* this step is the continuation of sendMessage after its request settled
ChatSettleStep == last'.op = "chatResponse"

(***************************************************************************)
(* C1  Single-flight send: a sendMessage called while the in-flight flag   *)
(* is set appends nothing to the transcript, leaves ConversationHistory    *)
(* alone and issues no /api/chat request; at most one chat request is      *)
(* outstanding at any time.                                                *)
(***************************************************************************)
C1_SingleFlightSend ==
    /\ [](Len(chatPending) <= 1)
    /\ [][(isTyping /\ last'.op \in SendOps)
            => /\ messages' = messages
               /\ conversationHistory' = conversationHistory
               /\ chatPending' = chatPending]_vars

\* a send with non-empty text was called, and refused, while one is in flight
C1_Witness ==
    /\ last.op \in SendOps
    /\ ~last.accepted
    /\ Trim(last.value) # <<>>
    /\ isTyping
    /\ Len(chatPending) = 1

(***************************************************************************)
(* C2  Chat input is accepted only while the status is online: a           *)
(* sendMessage through any entry point while the status is checking or     *)
(* offline appends no message and issues no /api/chat request.             *)
(***************************************************************************)
C2_SendOnlyWhileOnline ==
    [][(statusIndicator # "online" /\ last'.op \in SendOps)
         => /\ messages' = messages
            /\ chatPending' = chatPending]_vars

(***************************************************************************)
(* C3  An accepted sendMessage appends exactly one user message when it is *)
(* called, and exactly one agent-side message (a reply or an error-flagged *)
(* message) when its request settles, however it settles.                  *)
(***************************************************************************)
C3_OneUserOneAgentMessage ==
    [][/\ AcceptedSendStep =>
            /\ ExtendsByOne(Rendered(messages'), Rendered(messages))
            /\ Rendered(messages')[Len(Rendered(messages'))] =
                  MessageElement("user", Trim(last'.value), FALSE)
       /\ ChatSettleStep =>
            /\ ExtendsByOne(Rendered(messages'), Rendered(messages))
            /\ Rendered(messages')[Len(Rendered(messages'))].role = "agent"
            /\ Rendered(messages')[Len(Rendered(messages'))].isError =
                  ~(~last'.data.threw /\ last'.data.status = "success"
                      /\ last'.data.hasResponse)]_vars

\* a send settled on a success response without its response field:
\* the user message is followed by one error-flagged agent message
C3_Witness ==
    /\ last.op = "chatResponse"
    /\ ~last.data.threw /\ last.data.status = "success" /\ ~last.data.hasResponse
    /\ Len(messages) = 3
    /\ messages[2].role = "user" /\ ~messages[2].typing
    /\ messages[3].role = "agent" /\ messages[3].isError

(***************************************************************************)
(* C4  When the request of an accepted sendMessage settles, on every path, *)
(* the in-flight flag is cleared and no typing placeholder is left in the  *)
(* transcript, at most one element having been removed for it; and every   *)
(* state with a send in flight leads to a state in which the flag is clear *)
(* and a new send is accepted, provided the request settles.               *)
(***************************************************************************)
C4_SettleClearsTyping ==
    /\ [][ChatSettleStep =>
            /\ ~isTyping'
            /\ Placeholders(messages') = <<>>
            /\ Len(Placeholders(messages)) - Len(Placeholders(messages')) <= 1
            /\ SendAccepted(<<"h">>)']_vars
    /\ []<>(~isTyping)

\* a send settled by a thrown transport error while its placeholder was
\* displayed: the flag is clear and the placeholder is gone
C4_Witness ==
    /\ last.op = "chatResponse"
    /\ last.data.threw
    /\ ~isTyping
    /\ Len(messages) = 3
    /\ messages[3].isError
    /\ Placeholders(messages) = <<>>

(***************************************************************************)
(* C5  When checkStatus settles, the status is online and the input        *)
(* controls are enabled if and only if the response carried both           *)
(* rag_available and vertex_ai_initialized; in every other case, a thrown  *)
(* error included, the status is offline and the controls are disabled.    *)
(* From then on the controls are enabled iff the status is online.         *)
(***************************************************************************)
C5_StatusGatesInput ==
    /\ [][last'.op = "statusResponse" =>
            IF ~last'.data.threw /\ last'.data.rag_available
                 /\ last'.data.vertex_ai_initialized
            THEN statusIndicator' = "online" /\ ~inputDisabled'
            ELSE statusIndicator' = "offline" /\ inputDisabled']_vars
    /\ [](~statusPending =>
            /\ statusIndicator \in {"online", "offline"}
            /\ ~inputDisabled <=> statusIndicator = "online")

\* the status check settled with only one of the two flags set
C5_Witness ==
    /\ last.op = "statusResponse"
    /\ ~last.data.threw
    /\ last.data.rag_available /\ ~last.data.vertex_ai_initialized
    /\ statusIndicator = "offline"
    /\ inputDisabled

(***************************************************************************)
(* C6  When a confirmed clearConversation gets a success response, then as *)
(* its handler completes the transcript is exactly the welcome message and *)
(* ConversationHistory is empty, whatever the state before, a send in      *)
(* flight and a displayed typing placeholder included.                     *)
(***************************************************************************)
C6_ClearSuccess ==
    [][(last'.op = "clearResponse" /\ ~last'.data.threw
          /\ last'.data.status = "success")
         => /\ messages' = <<WelcomeMessage>>
            /\ conversationHistory' = <<>>]_vars

\* a clear succeeded while a send was in flight
C6_Witness ==
    /\ last.op = "clearResponse"
    /\ ~last.data.threw /\ last.data.status = "success"
    /\ isTyping /\ Len(chatPending) = 1
    /\ messages = <<WelcomeMessage>>
    /\ conversationHistory = <<>>

(***************************************************************************)
(* C7  When a confirmed clearConversation fails, by a non-success status   *)
(* or by a thrown error, an error notification is emitted and the          *)
(* transcript and ConversationHistory are left as they were.               *)
(***************************************************************************)
C7_ClearFailureNotifies ==
    [][(last'.op = "clearResponse"
          /\ (last'.data.threw \/ last'.data.status # "success"))
         => /\ messages' = messages
            /\ conversationHistory' = conversationHistory
            /\ toastShow' /\ toastClass' = "error"
            /\ toastTimers' = toastTimers + 1]_vars

(***************************************************************************)
(* C8  A clearConversation whose confirmation is answered "no" issues no   *)
(* clear request and leaves ConversationHistory, the transcript, the       *)
(* in-flight flag and the notification state unchanged.                    *)
(***************************************************************************)
C8_ClearDeclinedNoEffect ==
    [][last'.op = "clearDeclined" =>
          /\ clearPending' = clearPending
          /\ conversationHistory' = conversationHistory
          /\ messages' = messages
          /\ isTyping' = isTyping
          /\ UNCHANGED toastVars]_vars

\* a clear was declined with a conversation on display and a send in flight
C8_Witness ==
    /\ last.op = "clearDeclined"
    /\ isTyping
    /\ Len(messages) = 3
    /\ clearPending = 0

(***************************************************************************)
(* C9  When /api/conversation-history answers success with n >= 1 entries, *)
(* loadHistory sets ConversationHistory to that sequence and appends n     *)
(* messages to the transcript, one per entry, in the backend's order and   *)
(* with each entry's role; on a non-success or empty response and on a     *)
(* failed request, ConversationHistory and the transcript are unchanged.   *)
(***************************************************************************)
C9_HistoryHydration ==
    [][last'.op = "historyResponse" =>
          LET data == last'.data
              n == Len(data.history)
          IN  IF ~data.threw /\ data.status = "success" /\ n >= 1
              THEN /\ conversationHistory' = data.history
                   /\ Len(messages') = Len(messages) + n
                   /\ SubSeq(messages', 1, Len(messages)) = messages
                   /\ \A k \in 1..n :
                        /\ messages'[Len(messages) + k].role = data.history[k].role
                        /\ messages'[Len(messages) + k].content =
                              data.history[k].message
                        /\ ~messages'[Len(messages) + k].typing
              ELSE /\ conversationHistory' = conversationHistory
                   /\ messages' = messages]_vars

\* two entries were restored before any user interaction
C9_Witness ==
    /\ last.op = "historyResponse"
    /\ Len(last.data.history) = 2
    /\ conversationHistory = last.data.history
    /\ Len(messages) = 3
    /\ messages[1] = WelcomeMessage
    /\ messages[2].role = "user" /\ messages[3].role = "agent"
    /\ ~isTyping /\ statusPending

(***************************************************************************)
(* C10  The history response is applied before any user message exists:    *)
(* at the moment it is applied no sendMessage has appended a message to    *)
(* the transcript or recorded a turn in ConversationHistory.               *)
(***************************************************************************)
C10_HistoryBeforeAnySend ==
    [][(last'.op = "historyResponse" /\ ~last'.data.threw
          /\ last'.data.status = "success" /\ Len(last'.data.history) >= 1)
         => /\ messages = <<WelcomeMessage>>
            /\ conversationHistory = <<>>]_vars

(***************************************************************************)
(* C11  An accepted sendMessage changes ConversationHistory only when its  *)
(* request settles with success: it then appends the user turn followed by *)
(* the agent turn to the end of the history.  When it is called, and when  *)
(* the request settles with an application failure or a transport failure, *)
(* ConversationHistory is left unchanged.                                  *)
(***************************************************************************)
C11_HistoryOnlyOnSuccess ==
    [][/\ AcceptedSendStep => conversationHistory' = conversationHistory
       /\ ChatSettleStep =>
            IF ~last'.data.threw /\ last'.data.status = "success"
                 /\ last'.data.hasResponse
            THEN /\ Len(conversationHistory') = Len(conversationHistory) + 2
                 /\ SubSeq(conversationHistory', 1, Len(conversationHistory))
                       = conversationHistory
                 /\ conversationHistory'[Len(conversationHistory) + 1] =
                       [role |-> "user", message |-> Head(chatPending).message]
                 /\ conversationHistory'[Len(conversationHistory) + 2] =
                       [role |-> "agent", message |-> last'.data.response]
            ELSE conversationHistory' = conversationHistory]_vars

\* a send settled with success on top of a restored history of one entry
C11_Witness ==
    /\ last.op = "chatResponse"
    /\ ~last.data.threw /\ last.data.status = "success" /\ last.data.hasResponse
    /\ Len(conversationHistory) = 3
    /\ conversationHistory[1] = HistoryEntry("user")
    /\ conversationHistory[2].role = "user"
    /\ conversationHistory[3].role = "agent"

(***************************************************************************)
(* C12  Ordering of a chat turn.  While the /api/chat request of a send is *)
(* outstanding, the user message of that send is already the last message  *)
(* of the transcript; an agent-side message is appended only by the step   *)
(* in which a request resolves; so over any sequence of sends the messages *)
(* after the welcome message alternate user, agent, user, agent, ... in    *)
(* send order.                                                             *)
(***************************************************************************)
AgentMessages(ms) ==
    SelectSeq(Rendered(ms), LAMBDA e : e.role = "agent")

\* the messages after the first alternate user / agent, starting with user
Alternates(ms) ==
    \A k \in 1..Len(ms) :
        ms[k].role = (IF k % 2 = 1 THEN "user" ELSE "agent")

IsWrapped(text) ==
    /\ HasAt(text, 1, ParagraphOpen)
    /\ Len(text) >= Len(ParagraphOpen) + Len(ParagraphClose)
    /\ HasAt(text, Len(text) - Len(ParagraphClose) + 1, ParagraphClose)

C15_WrappedIffNewline ==
    fmtDone => (IsWrapped(fmtResult) <=> Includes(fmtContent, <<NL>>))

(***************************************************************************)
(* C15 (amended)  formatMessage wraps its output in a paragraph if and     *)
(* only if the input contains a newline or the literal markup <br> or      *)
(* </p>.                                                                   *)
(***************************************************************************)
C15_WrappedIffBreakMarkup ==
    fmtDone =>
        (IsWrapped(fmtResult) <=>
            \/ Includes(fmtContent, <<NL>>)
            \/ Includes(fmtContent, LineBreak)
            \/ Includes(fmtContent, ParagraphClose))

\* an input with literal break markup and no newline was formatted and wrapped
C15_Witness ==
    /\ fmtDone
    /\ Includes(fmtContent, LineBreak)
    /\ ~Includes(fmtContent, <<NL>>)
    /\ IsWrapped(fmtResult)

(***************************************************************************)
(* C16  For every input built from plain text, paired double-asterisk,     *)
(* single-asterisk and backtick delimiters and newlines, formatMessage     *)
(* turns each double-asterisk pair into bold markup (not into nested       *)
(* italic markup), each single-asterisk pair into italic markup, each      *)
(* backtick pair into code markup, two newlines in a row into a paragraph  *)
(* break and every other newline into a line break, and wraps the result   *)
(* in a paragraph.                                                         *)
(***************************************************************************)
\* the markup the claim gives a segment, newlines not yet converted
SegmentMarkup(seg) ==
    CASE seg.kind = "bold" -> StrongOpen \o seg.text \o StrongClose
      [] seg.kind = "italic" -> EmOpen \o seg.text \o EmClose
      [] seg.kind = "code" -> CodeOpen \o seg.text \o CodeClose
      [] OTHER -> seg.text

\* the output the claim gives an input built from the segments
ClaimedMarkup(segs) ==
    LET inline == Concat([k \in 1..Len(segs) |-> SegmentMarkup(segs[k])])
        paragraphs == ReplaceText(inline, 1, <<NL, NL>>, ParagraphBreak)
        broken == ReplaceText(paragraphs, 1, <<NL>>, LineBreak)
    IN  IF Includes(inline, <<NL>>)
        THEN ParagraphOpen \o broken \o ParagraphClose
        ELSE broken

ClaimedTable ==
    { [source |-> SourceOf(segs), markup |-> ClaimedMarkup(segs)] :
        segs \in SegmentLists \cup { ExampleSegments } }

C16_PairsAndBreaksConverted ==
    fmtDone =>
        \A e \in ClaimedTable : e.source = fmtContent => fmtResult = e.markup

\* the example of the specification is formatted as the specification says
C16_ExampleConverted ==
    (fmtDone /\ fmtContent = SourceOf(ExampleSegments))
        => fmtResult = ClaimedMarkup(ExampleSegments)

(***************************************************************************)
(* C17  A toast stays visible until its own dismissal delay has elapsed or *)
(* a newer toast replaces it: the timer of an earlier toast never hides a  *)
(* later one.  All timers have the same delay and fire in the order they   *)
(* were started, so while any timer is pending the timer of the newest     *)
(* toast is pending, and that toast is still shown.                        *)
(***************************************************************************)
C17_ToastVisibleUntilOwnTimer == toastTimers > 0 => toastShow

(***************************************************************************)
(* C18  Between handlers the typing placeholder is in the transcript if    *)
(* and only if a send is in flight, whatever clearConversation, the        *)
(* history load and the status check do in between.                        *)
(***************************************************************************)
C18_PlaceholderIffTyping == isTyping <=> (Placeholders(messages) # <<>>)

(***************************************************************************)
(* C19  A successful clear is not undone by work started before it: the    *)
(* step after the clear handler has completed, unless it is a new send,    *)
(* leaves conversationHistory empty and the transcript reduced to the      *)
(* welcome message.                                                        *)
(***************************************************************************)
ClearSucceeded ==
    /\ last.op = "clearResponse"
    /\ ~last.data.threw
    /\ last.data.status = "success"

C19_ClearNotUndone ==
    [][ (ClearSucceeded /\ last'.op \notin SendOps)
            => (conversationHistory' = <<>> /\ messages' = <<WelcomeMessage>>) ]_vars

(***************************************************************************)
(* C13  The loading overlay is shown in every state in which a createCorpus *)
(* or addDocument request has been issued and has not settled, two          *)
(* overlapping calls included, and it is hidden once none is outstanding.   *)
(***************************************************************************)
C13_OverlayWhileOutstanding == loadingOverlay <=> (Outstanding(corpusPending) > 0)

(***************************************************************************)
(* C14  createCorpus with a name that is empty after trimming, and         *)
(* addDocument with a corpus name or a document URL that is empty after    *)
(* trimming, issue no request, do not show the loading overlay, leave the  *)
(* form fields unchanged and show a warning toast.                         *)
(***************************************************************************)
\* this step is a call of a corpus form handler with an empty field
EmptyFormStep ==
    \/ last'.op = "createCorpus" /\ Trim(newCorpusName) = <<>>
    \/ last'.op = "addDocument"
        /\ (Trim(targetCorpus) = <<>> \/ Trim(documentUrl) = <<>>)

C14_EmptyFormRejected ==
    [][ EmptyFormStep =>
            /\ corpusPending' = corpusPending
            /\ refreshPending' = refreshPending
            /\ loadingOverlay' = loadingOverlay
            /\ formVars' = formVars
            /\ toastClass' = "warning"
            /\ toastShow' ]_vars

\* createCorpus was called on a name of blanks, with nothing outstanding
C14_Witness ==
    /\ last.op = "createCorpus"
    /\ newCorpusName = <<" ">>
    /\ Outstanding(corpusPending) = 0
    /\ ~loadingOverlay
    /\ toastClass = "warning"
    /\ toastShow

====
